---- MODULE Spec2Model ----
(***************************************************************************)
(* Model of the live-search autocomplete widget: the useSearch hook        *)
(* (reducer, debounce timer, fetch), the App component (isOpen,            *)
(* activeIndex, click-outside listener, handlers), the SearchInput and     *)
(* SearchResults key handlers and the focus effect of SearchResults.       *)
(*                                                                         *)
(* Text is a sequence of one-character strings, so that trim() is computed *)
(* character by character.  Every event handler is one atomic action: the  *)
(* handler's state updates are batched by React and followed by one commit *)
(* (render + effects), which is part of the action.                        *)
(***************************************************************************)
EXTENDS Integers, Sequences, FiniteSets, TLC

\* ---------------------------------------------------------------- bounds
MaxLen == 2        \* longest text the user types
MaxResults == 3    \* longest result list the data source returns
MaxInFlight == 2   \* most fetchFn calls awaiting resolution at one time

\* ---------------------------------------------------------------- values
Chars == {" ", "a"}
Texts == UNION {[1..n -> Chars] : n \in 0..MaxLen}

\* error: null
Null == "null"
\* the messages of the errors searchBooks can throw
Failures == {"API Error: 500 Internal Server Error", "Failed to fetch"}

\* String.prototype.trim, used by search() and showDropdown
RECURSIVE trimStart(_)
trimStart(s) ==
  IF s # <<>> /\ Head(s) = " " THEN trimStart(Tail(s)) ELSE s

RECURSIVE trimEnd(_)
trimEnd(s) ==
  IF s # <<>> /\ s[Len(s)] = " " THEN trimEnd(SubSeq(s, 1, Len(s) - 1)) ELSE s

\* mutants of trim: no trimming at all; only the leading whitespace
trimNothing(s) == s

trimLeadingOnly(s) == trimStart(s)

trim(s) == trimEnd(trimStart(s))

\* a normalized record of searchBooks: id (the React key) and title
Title(i) ==
  IF i % 3 = 1 THEN <<"a">> ELSE IF i % 3 = 2 THEN <<"a", "a">> ELSE <<" ", "a">>

Book(i) == [id |-> i, title |-> Title(i)]

\* what searchBooks can resolve with: the first or the last books of the
\* catalogue, in order (an entry keeps its id but not always its position)
Interval(lo, hi) == [k \in 1..(hi - lo + 1) |-> Book(lo + k - 1)]

Responses ==
  {Interval(1, hi) : hi \in 0..MaxResults}
    \cup {Interval(lo, MaxResults) : lo \in 1..MaxResults}

\* ---------------------------------------------------------------- reducer
initialState ==
  [status |-> "idle", query |-> <<>>, results |-> <<>>, error |-> Null]

searchReducer(s, action) ==
  CASE action.type = "SET_QUERY" ->
         [s EXCEPT !.query = action.payload]
    [] action.type = "FETCH_START" ->
         [s EXCEPT !.status = "loading", !.error = Null]
    [] action.type = "FETCH_SUCCESS" ->
         [s EXCEPT !.status = "success", !.results = action.payload]
    [] action.type = "FETCH_ERROR" ->
         [s EXCEPT !.status = "error", !.results = <<>>, !.error = action.payload]
    [] action.type = "CLEAR" -> initialState
    [] OTHER -> s

\* ---------------------------------------------------------------- state
VARIABLES
  state,          \* useReducer state of useSearch: status, query, results, error
  timers,         \* timeouts scheduled in the runtime: [handle, rawQuery, query]
  debounceTimer,  \* debounceTimer.current: the last handle, 0 for null
  inflight,       \* fetchFn calls awaiting resolution, in issue order, each
                  \* with its history mark (fresh, requeried, cleared,
                  \* unmounted); the argument of a call is in the event of
                  \* the timeout that made it
  isOpen,         \* App: useState(false)
  activeIndex,    \* App: useState(-1)
  focus,          \* document.activeElement: input, body or a list entry
  mounted,        \* FALSE after the component unmounted
  event,          \* history: the handler that ran last and the text it got
  restarted       \* history: the timer that is pending, or that fired in
                  \* the last step, replaced a pending one

hookVars == <<state, timers, debounceTimer, inflight>>
vars == <<state, timers, debounceTimer, inflight, isOpen, activeIndex, focus,
          mounted, event, restarted>>

\* the handler that ran last, and the text it was called with (if any)
Event(type, text) == [type |-> type, text |-> text]

Body == [on |-> "body", id |-> 0]
Input == [on |-> "input", id |-> 0]
Button == [on |-> "button", id |-> 0]
Item(i) == [on |-> "item", id |-> i]

Init ==
  /\ state = initialState
  /\ timers = {}
  /\ debounceTimer = 0
  /\ inflight = <<>>
  /\ isOpen = FALSE
  /\ activeIndex = -1
  /\ focus = Body
  /\ mounted = TRUE
  /\ event = Event("init", <<>>)
  /\ restarted = FALSE

\* ---------------------------------------------------------------- helpers
Min(a, b) == IF a < b THEN a ELSE b
Max(a, b) == IF a > b THEN a ELSE b

RemoveAt(seq, i) == SubSeq(seq, 1, i - 1) \o SubSeq(seq, i + 1, Len(seq))

\* mutant of clearTimeout: nothing is cancelled
clearTimeoutNoop(ts, h) == ts

\* clearTimeout(handle): a handle that is not scheduled is ignored
clearTimeout(ts, h) == {t \in ts : t.handle # h}

\* setTimeout: a handle that none of the timers ts has, where ts are the
\* timers scheduled when search() was called, the one it cancels included:
\* the runtime gives every timer a handle of its own, so the timer that
\* replaces a pending one is a different timer even for the same text.
\* (The least such number: the handle of a timer that was gone before the
\* call is used again, which the hook cannot observe, as every new handle
\* overwrites debounceTimer.current.)
setTimeoutHandle(ts) ==
  LET free == (1..(Cardinality(ts) + 1)) \ {t.handle : t \in ts}
  IN  CHOOSE n \in free : \A m \in free : n <= m

\* history: a step that schedules and fires no timer keeps restarted only
\* while the timer is still pending
BurstGoesOn == restarted' = (restarted /\ timers # {})

\* history: what happened to the machine since a fetch was issued
Marked(fs, m) == [i \in 1..Len(fs) |-> [fs[i] EXCEPT !.mark = m]]

\* App: const showDropdown = isOpen && query.trim().length > 0
showDropdown(s, open) == open /\ Len(trim(s.query)) > 0

\* App: <SearchResults> is rendered, so its <li> entries exist
listRendered(s, open) ==
  showDropdown(s, open) /\ s.status = "success" /\ Len(s.results) > 0

\* SearchInput: {!isLoading && value && <button className="search-clear-btn">}
buttonRendered(s) == s.status # "loading" /\ s.query # <<>>

IndexOf(rs, id) == CHOOSE i \in 1..Len(rs) : rs[i].id = id
HasId(rs, id) == \E i \in 1..Len(rs) : rs[i].id = id

\* The commit that follows a handler: f is the focus the handler left.
\* A focused <li> or clear button that is unmounted loses the focus to the
\* body; the effect of SearchResults runs on mount and when activeIndex
\* changed.
Commit(f) ==
  LET was == listRendered(state, isOpen)
      now == listRendered(state', isOpen')
      kept == IF \/ f.on = "item" /\ ~(now /\ HasId(state'.results, f.id))
                 \/ f.on = "button" /\ ~buttonRendered(state')
              THEN Body ELSE f
      runs == now /\ (~was \/ activeIndex' # activeIndex)
  IN  focus' = IF runs /\ activeIndex' >= 0 /\ activeIndex' < Len(state'.results)
               THEN Item(state'.results[activeIndex' + 1].id)
               ELSE kept

\* ---------------------------------------------------------------- useSearch
\* mutant of cancelPending: the previous timer is not cancelled
cancelNothing(ts, h) == ts

\* search(), non-empty branch: clearTimeout(debounceTimer.current) before
\* the new setTimeout
cancelPending(ts, h) == clearTimeout(ts, h)

\* search(rawQuery)
search(rawQuery) ==
  LET query == trim(rawQuery)
      s1 == searchReducer(state, [type |-> "SET_QUERY", payload |-> rawQuery])
      kept == cancelPending(timers, debounceTimer)
      handle == setTimeoutHandle(timers)
  IN  IF query = <<>>
      THEN /\ timers' = clearTimeout(timers, debounceTimer)
           /\ state' = searchReducer(s1, [type |-> "CLEAR"])
           /\ restarted' = FALSE
           /\ UNCHANGED <<debounceTimer, inflight>>
      ELSE /\ timers' = kept \cup {[handle |-> handle, rawQuery |-> rawQuery,
                                    query |-> query]}
           /\ debounceTimer' = handle
           /\ state' = s1
           /\ restarted' = (timers # {})
           /\ inflight' = Marked(inflight, "requeried")

\* mutant of clear: the pending timer is not cancelled
clearKeepsTimer ==
  /\ state' = searchReducer(state, [type |-> "CLEAR"])
  /\ inflight' = Marked(inflight, "cleared")
  /\ restarted' = FALSE
  /\ UNCHANGED <<timers, debounceTimer>>

\* clear()
clear ==
  /\ timers' = clearTimeout(timers, debounceTimer)
  /\ state' = searchReducer(state, [type |-> "CLEAR"])
  /\ inflight' = Marked(inflight, "cleared")
  /\ restarted' = FALSE
  /\ UNCHANGED debounceTimer

\* dispatch(action) in the async callback: called unconditionally, with no
\* test of whether the component is still mounted.  The states the call can
\* leave: while mounted the reducer runs; what becomes of an action
\* dispatched after the unmount is up to the runtime and not to useSearch
\* (the update is dropped, or the reducer runs).
dispatched(action) ==
  {searchReducer(state, action)} \cup (IF mounted THEN {} ELSE {state})

\* the setTimeout callback up to the await: FETCH_START, then fetchFn(query)
\* (the model lets at most MaxInFlight calls wait for their resolution)
TimerFire(t) ==
  /\ t \in timers
  /\ Len(inflight) < MaxInFlight
  /\ timers' = timers \ {t}
  /\ state' \in dispatched([type |-> "FETCH_START"])
  /\ inflight' = Append(inflight, [mark |-> "fresh"])
  /\ event' = Event("timeout", t.query)
  /\ UNCHANGED <<debounceTimer, isOpen, activeIndex, mounted, restarted>>
  /\ Commit(focus)

\* mutant of FetchSuccess: the response is dropped, nothing is dispatched
FetchSuccessIgnored(i, rs) ==
  /\ i \in 1..Len(inflight)
  /\ inflight' = RemoveAt(inflight, i)
  /\ event' = Event("FETCH_SUCCESS", <<>>)
  /\ BurstGoesOn
  /\ UNCHANGED <<state, timers, debounceTimer, isOpen, activeIndex, mounted>>
  /\ Commit(focus)

\* the setTimeout callback after the await: fetch i resolved with rs
FetchSuccess(i, rs) ==
  /\ i \in 1..Len(inflight)
  /\ inflight' = RemoveAt(inflight, i)
  /\ state' \in dispatched([type |-> "FETCH_SUCCESS", payload |-> rs])
  /\ event' = Event("FETCH_SUCCESS", <<>>)
  /\ BurstGoesOn
  /\ UNCHANGED <<timers, debounceTimer, isOpen, activeIndex, mounted>>
  /\ Commit(focus)

\* mutant of FetchError: the rejection is not caught, nothing is dispatched
FetchErrorUncaught(i, msg) ==
  /\ i \in 1..Len(inflight)
  /\ inflight' = RemoveAt(inflight, i)
  /\ event' = Event("FETCH_ERROR", <<>>)
  /\ BurstGoesOn
  /\ UNCHANGED <<state, timers, debounceTimer, isOpen, activeIndex, mounted>>
  /\ Commit(focus)

\* the setTimeout callback after the await: fetch i threw an error
FetchError(i, msg) ==
  /\ i \in 1..Len(inflight)
  /\ inflight' = RemoveAt(inflight, i)
  /\ state' \in dispatched([type |-> "FETCH_ERROR", payload |-> msg])
  /\ event' = Event("FETCH_ERROR", <<>>)
  /\ BurstGoesOn
  /\ UNCHANGED <<timers, debounceTimer, isOpen, activeIndex, mounted>>
  /\ Commit(focus)


\* the cleanup of useSearch's effect and of App's listener effect
Unmount ==
  /\ mounted
  /\ mounted' = FALSE
  /\ timers' = clearTimeout(timers, debounceTimer)
  /\ inflight' = Marked(inflight, "unmounted")
  /\ focus' = Body
  /\ event' = Event("unmount", <<>>)
  /\ restarted' = FALSE
  /\ UNCHANGED <<state, debounceTimer, isOpen, activeIndex>>

\* ---------------------------------------------------------------- App
\* handleChange(value): typing in the focused input
handleChange(value) ==
  /\ mounted
  /\ focus = Input
  /\ search(value)
  /\ isOpen' = TRUE
  /\ activeIndex' = -1
  /\ event' = Event("handleChange", value)
  /\ UNCHANGED mounted
  /\ Commit(focus)

\* mutant of handleClear: closes the dropdown without calling clear()
handleCloseOnly ==
  /\ isOpen' = FALSE
  /\ activeIndex' = -1
  /\ BurstGoesOn
  /\ UNCHANGED hookVars

\* handleClear(): clear(); setIsOpen(false); setActiveIndex(-1)
handleClear ==
  /\ clear
  /\ isOpen' = FALSE
  /\ activeIndex' = -1

\* mutant of arrowDownFromInput: no test of results.length
arrowDownUnguarded(prev, n) == 0

\* handleArrowDown(): the index after ArrowDown on the input
arrowDownFromInput(prev, n) == IF n > 0 THEN 0 ELSE prev

\* mutant of handleSelect: the dropdown is not closed
handleSelectKeepsOpen(result) ==
  /\ search(result.title)
  /\ UNCHANGED isOpen
  /\ activeIndex' = -1

\* handleSelect(result)
handleSelect(result) ==
  /\ search(result.title)
  /\ isOpen' = FALSE
  /\ activeIndex' = -1

\* mutant of contains: every target counts as inside the wrapper
containsAlways(target) == TRUE

\* wrapperRef.current.contains(event.target)
contains(target) == target.on # "outside"

\* what a mousedown can hit: outside the wrapper, the input, the clear
\* button, a list entry, or an unfocusable part of the wrapper
Targets ==
  {[on |-> "outside", id |-> 0], Input, [on |-> "wrapper", id |-> 0]}
    \cup (IF buttonRendered(state) THEN {Button} ELSE {})
    \cup (IF listRendered(state, isOpen)
          THEN {Item(state.results[i].id) : i \in 1..Len(state.results)}
          ELSE {})

\* the focus after the browser's default action of a mousedown on target
focusAfterMouseDown(target) ==
  IF target.on \in {"input", "button", "item"} THEN target ELSE Body

\* handleClickOutside(event): the document's mousedown listener
handleClickOutside(target) ==
  /\ mounted
  /\ target \in Targets
  /\ IF ~contains(target)
     THEN isOpen' = FALSE /\ activeIndex' = -1
     ELSE UNCHANGED <<isOpen, activeIndex>>
  /\ event' = Event(IF target.on = "outside" THEN "mousedownOutside"
                                            ELSE "mousedownInside", <<>>)
  /\ BurstGoesOn
  /\ UNCHANGED <<hookVars, mounted>>
  /\ Commit(focusAfterMouseDown(target))

\* ---------------------------------------------------------------- SearchInput
\* handleKeyDown(e) of the input, e.key = "Escape": onClear(), then blur()
InputEscape ==
  /\ mounted
  /\ focus = Input
  /\ handleClear
  /\ event' = Event("inputEscape", <<>>)
  /\ UNCHANGED mounted
  /\ Commit(Body)

\* mutant of InputArrowDown: ArrowDown also opens the dropdown
InputArrowDownOpens ==
  /\ mounted
  /\ focus = Input
  /\ activeIndex' = arrowDownFromInput(activeIndex, Len(state.results))
  /\ isOpen' = TRUE
  /\ event' = Event("inputArrowDown", <<>>)
  /\ BurstGoesOn
  /\ UNCHANGED <<hookVars, mounted>>
  /\ Commit(focus)

\* handleKeyDown(e) of the input, e.key = "ArrowDown": onArrowDown()
InputArrowDown ==
  /\ mounted
  /\ focus = Input
  /\ activeIndex' = arrowDownFromInput(activeIndex, Len(state.results))
  /\ event' = Event("inputArrowDown", <<>>)
  /\ BurstGoesOn
  /\ UNCHANGED <<hookVars, isOpen, mounted>>
  /\ Commit(focus)

\* handleClear of the clear button: onClear(), then focus the input
ClearButton ==
  /\ mounted
  /\ buttonRendered(state)
  /\ handleClear
  /\ event' = Event("clearButton", <<>>)
  /\ UNCHANGED mounted
  /\ Commit(Input)

\* Tab on the input: the browser moves the focus to the next element of
\* the tab order, the clear button
TabFromInput ==
  /\ mounted
  /\ focus = Input
  /\ buttonRendered(state)
  /\ event' = Event("tab", <<>>)
  /\ BurstGoesOn
  /\ UNCHANGED <<hookVars, isOpen, activeIndex, mounted>>
  /\ Commit(Button)

\* Shift+Tab on the clear button: the focus moves back to the input
ShiftTabFromButton ==
  /\ mounted
  /\ focus = Button
  /\ event' = Event("shiftTab", <<>>)
  /\ BurstGoesOn
  /\ UNCHANGED <<hookVars, isOpen, activeIndex, mounted>>
  /\ Commit(Input)

\* ---------------------------------------------------------------- SearchResults
\* mutant of arrowDownInList: wraps around to the first entry
arrowDownWraps(prev, n) == (prev + 1) % n

\* setActiveIndex((prev) => Math.min(prev + 1, results.length - 1))
arrowDownInList(prev, n) == Min(prev + 1, n - 1)

\* setActiveIndex((prev) => Math.max(prev - 1, 0))
arrowUpInList(prev) == Max(prev - 1, 0)

\* a key event reaches the <li> that has the focus
focusedEntry ==
  /\ mounted
  /\ focus.on = "item"
  /\ listRendered(state, isOpen)
  /\ HasId(state.results, focus.id)

\* handleKeyDown(e, index), e.key = "ArrowDown"
ItemArrowDown ==
  /\ focusedEntry
  /\ activeIndex' = arrowDownInList(activeIndex, Len(state.results))
  /\ event' = Event("itemArrowDown", <<>>)
  /\ BurstGoesOn
  /\ UNCHANGED <<hookVars, isOpen, mounted>>
  /\ Commit(focus)

\* handleKeyDown(e, index), e.key = "ArrowUp"
ItemArrowUp ==
  /\ focusedEntry
  /\ activeIndex' = arrowUpInList(activeIndex)
  /\ event' = Event("itemArrowUp", <<>>)
  /\ BurstGoesOn
  /\ UNCHANGED <<hookVars, isOpen, mounted>>
  /\ Commit(focus)

\* handleKeyDown(e, index), e.key = "Enter": the entry exists, so onSelect
ItemEnter ==
  /\ focusedEntry
  /\ handleSelect(state.results[IndexOf(state.results, focus.id)])
  /\ event' = Event("itemEnter",
                     state.results[IndexOf(state.results, focus.id)].title)
  /\ UNCHANGED mounted
  /\ Commit(focus)

\* handleKeyDown(e, index), e.key = "Escape": onClose()
ItemEscape ==
  /\ focusedEntry
  /\ handleClear
  /\ event' = Event("itemEscape", <<>>)
  /\ UNCHANGED mounted
  /\ Commit(focus)

\* Shift+Tab on a <li> (tabIndex -1): the focus moves to the element of the
\* tab order before it, the clear button (rendered whenever the list is)
ShiftTabFromItem ==
  /\ focusedEntry
  /\ event' = Event("shiftTab", <<>>)
  /\ BurstGoesOn
  /\ UNCHANGED <<hookVars, isOpen, activeIndex, mounted>>
  /\ Commit(Button)

\* onClick of entry i: onSelect(result).  The click moves no focus: the
\* mousedown before it is a step of its own (handleClickOutside), and the
\* focus may have moved since.
ItemClick(i) ==
  /\ mounted
  /\ listRendered(state, isOpen)
  /\ i \in 1..Len(state.results)
  /\ handleSelect(state.results[i])
  /\ event' = Event("itemClick", state.results[i].title)
  /\ UNCHANGED mounted
  /\ Commit(focus)

\* ---------------------------------------------------------------- system
Next ==
  \/ \E value \in Texts : handleChange(value)
  \/ InputEscape
  \/ InputArrowDown
  \/ ClearButton
  \/ TabFromInput
  \/ ShiftTabFromButton
  \/ ItemArrowDown
  \/ ItemArrowUp
  \/ ItemEnter
  \/ ItemEscape
  \/ ShiftTabFromItem
  \/ \E i \in 1..MaxResults : ItemClick(i)
  \/ \E target \in Targets : handleClickOutside(target)
  \/ \E t \in timers : TimerFire(t)
  \/ \E i \in 1..Len(inflight), rs \in Responses : FetchSuccess(i, rs)
  \/ \E i \in 1..Len(inflight), msg \in Failures : FetchError(i, msg)
  \/ Unmount

Spec == Init /\ [][Next]_vars

\* fetchFn(query) of fetch i settles: the promise resolves or rejects
Settle(i) ==
  \/ \E rs \in Responses : FetchSuccess(i, rs)
  \/ \E msg \in Failures : FetchError(i, msg)

\* every timer setTimeout can schedule: a timer that replaces a pending one
\* gets the other handle
Timeouts ==
  {[handle |-> h, rawQuery |-> q, query |-> trim(q)] :
     h \in 1..2, q \in {x \in Texts : trim(x) # <<>>}}

\* the runtime runs the callback of a timeout that stays scheduled for its
\* whole delay (a burst of submits that cancels every timer in time never
\* lets one fire), and a call of the data source that is outstanding
\* eventually answers
FairSpec ==
  /\ Spec
  /\ \A t \in Timeouts : WF_vars(TimerFire(t))
  /\ WF_vars(\E i \in 1..Len(inflight) : Settle(i))

TypeOK ==
  /\ state.status \in {"idle", "loading", "success", "error"}
  /\ state.query \in Texts
  /\ state.results \in Responses
  /\ state.error \in {Null} \cup Failures
  /\ debounceTimer \in 0..2
  /\ Cardinality(timers) <= 1
  /\ Len(inflight) <= MaxInFlight
  /\ restarted \in BOOLEAN
  /\ isOpen \in BOOLEAN
  /\ activeIndex \in -1..MaxResults
  /\ mounted \in BOOLEAN

\* ---------------------------------------------------------------- properties
Resolved == {"FETCH_SUCCESS", "FETCH_ERROR"}

\* the handlers that call search(): typing, Enter on an entry, a click on it
Submits == {"handleChange", "itemEnter", "itemClick"}

\* s consists of whitespace only (or is empty)
IsBlank(s) == \A i \in 1..Len(s) : s[i] = " "

\* q is raw without its leading and trailing whitespace, and is not empty
IsTrimOf(q, raw) ==
  /\ q # <<>>
  /\ q[1] # " "
  /\ q[Len(q)] # " "
  /\ \E i \in 1..Len(raw), j \in 1..Len(raw) :
       /\ q = SubSeq(raw, i, j)
       /\ \A k \in 1..Len(raw) : (k < i \/ k > j) => raw[k] = " "

\* fetchFn was called in this step (with the text of the step's event)
Issued == Len(inflight') > Len(inflight)

\* C1: in a burst of non-empty submits, each arriving before the timer of
\* the previous one fired, a submit issues no fetch and leaves exactly one
\* timer, the one for its own text; nothing but a submit schedules a timer;
\* when the timer fires exactly one fetch is issued, for the trimmed text of
\* the last submit, and no timer of the burst is left to issue another.
DebounceBurst ==
  [][/\ Cardinality(timers') <= 1
     /\ (event'.type \in Submits) =>
          /\ ~Issued
          /\ ~IsBlank(event'.text) =>
               /\ timers' # {}
               /\ \A t \in timers' : t.rawQuery = event'.text
     /\ (event'.type \notin Submits) => timers' \subseteq timers
     /\ Issued =>
          /\ Len(inflight') = Len(inflight) + 1
          /\ timers' = {}
          /\ \E t \in timers : IsTrimOf(event'.text, t.rawQuery)]_vars

DebounceBurstWitness ==
  /\ event = Event("timeout", <<"a", "a">>)
  /\ restarted
  /\ timers = {}
  /\ Len(inflight) = 1
  /\ state.query = <<"a", "a">>

\* C2: the resolution of a fetch that was in flight when clear() was called
\* (and no submit followed) changes nothing: the state stays the cleared one.
ClearedFetchIsNoOp ==
  [][\A i \in 1..Len(inflight) :
       (/\ inflight[i].mark = "cleared"
        /\ event'.type \in Resolved
        /\ inflight' = RemoveAt(inflight, i))
       => state' = state /\ state' = initialState]_vars

\* C3: the resolution of a fetch that was in flight when a later non-empty
\* submit occurred changes neither status nor results nor error.
SupersededFetchIsNoOp ==
  [][\A i \in 1..Len(inflight) :
       (/\ inflight[i].mark = "requeried"
        /\ event'.type \in Resolved
        /\ inflight' = RemoveAt(inflight, i))
       => /\ state'.status = state.status
          /\ state'.results = state.results
          /\ state'.error = state.error]_vars

\* C4: a submit of empty or whitespace-only text leaves the initial state
\* (idle, query "", no results, no error), no timer pending, and issues no
\* fetch.
BlankSubmitClears ==
  [][(event'.type = "handleChange" /\ IsBlank(event'.text))
       => /\ state' = initialState
          /\ timers' = {}
          /\ ~Issued
          /\ inflight' = inflight]_vars

BlankSubmitWitness ==
  /\ event = Event("handleChange", <<" ">>)
  /\ Len(inflight) > 0
  /\ debounceTimer > 0
  /\ state = initialState
  /\ timers = {}

\* C5: activeIndex is in [-1, results.length - 1] in every reachable state
\* (so it is -1 whenever results is empty).
ActiveIndexInRange ==
  /\ activeIndex >= -1
  /\ activeIndex <= Len(state.results) - 1

\* C6: with n > 0 results and activeIndex in [0, n-1], ArrowDown in the list
\* sets activeIndex to min(activeIndex+1, n-1) and ArrowUp to
\* max(activeIndex-1, 0); the index stays in [0, n-1], does not wrap, and
\* isOpen, query and results are unchanged.
ListNavigationClamps ==
  [][LET n == Len(state.results) IN
     (n > 0 /\ activeIndex \in 0..(n - 1)) =>
       /\ (event'.type = "itemArrowDown") =>
            /\ activeIndex' = IF activeIndex = n - 1 THEN activeIndex
                              ELSE activeIndex + 1
            /\ activeIndex' \in 0..(n - 1)
            /\ UNCHANGED <<isOpen, state>>
       /\ (event'.type = "itemArrowUp") =>
            /\ activeIndex' = IF activeIndex = 0 THEN 0 ELSE activeIndex - 1
            /\ activeIndex' \in 0..(n - 1)
            /\ UNCHANGED <<isOpen, state>>]_vars

ListNavigationWitness ==
  /\ event.type = "itemArrowDown"
  /\ Len(state.results) >= 3
  /\ activeIndex = Len(state.results) - 1
  /\ focus = Item(state.results[Len(state.results)].id)

\* C7 as stated: Escape closes the dropdown and leaves query, results and
\* status as they were.
EscapeKeepsSearchState ==
  [][(event'.type \in {"inputEscape", "itemEscape"})
       => /\ isOpen' = FALSE
          /\ activeIndex' = -1
          /\ state'.query = state.query
          /\ state'.results = state.results
          /\ state'.status = state.status]_vars

\* C7, amended: Escape, on the input or on a list entry, closes the dropdown
\* (isOpen = false, activeIndex = -1) and resets the search state to its
\* initial values, with no debounce timer pending.
EscapeClearsSearchState ==
  [][(event'.type \in {"inputEscape", "itemEscape"})
       => /\ isOpen' = FALSE
          /\ activeIndex' = -1
          /\ state' = initialState
          /\ timers' = {}]_vars

EscapeWitness ==
  /\ event.type = "itemEscape"
  /\ debounceTimer > 0
  /\ state = initialState
  /\ ~isOpen
  /\ activeIndex = -1
  /\ focus = Body

\* C8: a mousedown outside the wrapper closes the dropdown and resets
\* activeIndex, leaving the search state, the pending timer and the fetches
\* in flight untouched; a mousedown inside the wrapper changes none of
\* isOpen, activeIndex, query, results, status.
ClickOutsideCloses ==
  [][/\ (event'.type = "mousedownOutside") =>
          /\ isOpen' = FALSE
          /\ activeIndex' = -1
          /\ UNCHANGED <<state, timers, debounceTimer, inflight>>
     /\ (event'.type = "mousedownInside") =>
          UNCHANGED <<isOpen, activeIndex, state>>]_vars

ClickOutsideWitness ==
  /\ event.type = "mousedownOutside"
  /\ ~isOpen
  /\ activeIndex = -1
  /\ state.query # <<>>
  /\ Len(state.results) > 0
  /\ timers # {}
  /\ Len(inflight) > 0

\* C9: the data source is only invoked by a timer firing, with a non-empty
\* text without leading or trailing whitespace that is the trimmed text of
\* the submit that scheduled the timer, while the query in the state is that
\* submit's raw text.
FetchArgumentTrimmed ==
  [][Issued =>
       /\ event'.type = "timeout"
       /\ event'.text # <<>>
       /\ event'.text[1] # " "
       /\ event'.text[Len(event'.text)] # " "
       /\ \E t \in timers :
            /\ t \notin timers'
            /\ event'.text = t.query
            /\ IsTrimOf(t.query, t.rawQuery)
            /\ state.query = t.rawQuery
            /\ state'.query = t.rawQuery]_vars

FetchArgumentWitness ==
  /\ event = Event("timeout", <<"a">>)
  /\ Len(inflight) > 0
  /\ state.query = <<"a", " ">>
  /\ state.status = "loading"

\* C10: at most one fetch is in flight in every reachable state.
AtMostOneInFlight == Len(inflight) <= 1

\* C11: results is non-empty only if status = "success" (it is empty whenever
\* the status is idle, loading or error).
ResultsOnlyOnSuccess == Len(state.results) > 0 => state.status = "success"

\* C12: error is set only if status = "error", in every reachable state,
\* whatever the order in which several fetches resolve.
ErrorOnlyOnError == state.error # Null => state.status = "error"

\* C13: after the unmount the search state never changes again: the unmount
\* leaves no timer pending, so none fires and no fetch is issued afterwards,
\* and the resolution of a fetch that was in flight at the unmount dispatches
\* nothing (event.type is the action the callback dispatched) and leaves the
\* state as it was.
NoMutationAfterTeardown ==
  [][/\ (event'.type = "unmount") => timers' = {} /\ state' = state
     /\ ~mounted =>
          /\ ~mounted'
          /\ state' = state
          /\ timers' = {}
          /\ event'.type # "timeout"
          /\ event'.type \notin Resolved
          /\ ~Issued]_vars

\* the handlers that commit a selection: Enter on an entry, a click on it
Selections == {"itemEnter", "itemClick"}

\* C14: Enter on a list entry, or a click on it, hands exactly the result of
\* that entry to the selection handler, once; afterwards isOpen = false,
\* activeIndex = -1 and query is the title of that result.
SelectionCommits ==
  [][(event'.type \in Selections) =>
       \E i \in 1..Len(state.results) :
         /\ (event'.type = "itemEnter") => state.results[i].id = focus.id
         /\ event'.text = state.results[i].title
         /\ state'.query = state.results[i].title
         /\ isOpen' = FALSE
         /\ activeIndex' = -1]_vars

SelectionCommitsWitness ==
  /\ event = Event("itemEnter", <<" ", "a">>)
  /\ state.query = <<" ", "a">>
  /\ Len(state.results) >= 2
  /\ ~isOpen
  /\ activeIndex = -1

\* the handlers that call clear(): Escape and the clear button
Clears == {"inputEscape", "itemEscape", "clearButton"}

\* the handlers after which a pending timer is gone or replaced
Interrupts == Submits \cup Clears \cup {"unmount"}

\* the timer fired and fetchFn was called with the trimmed query
Fired ==
  /\ event.type = "timeout"
  /\ IsTrimOf(event.text, state.query)
  /\ timers = {}
  /\ Len(inflight) > 0

\* C15: while mounted no timer stays pending forever: a timer that no further
\* submit, clear or unmount cancels goes away by firing, which issues one
\* fetch with the trimmed text of its submit and sets status = loading; a
\* loading status does not last forever; a fetch that resolves leaves
\* status = success with exactly the returned list, one that rejects leaves
\* status = error with no results and the message of the failure.
SubmitEventuallyFetched ==
  /\ \A t \in Timeouts : []<>(~mounted \/ t \notin timers)
  /\ []<>(~mounted \/ state.status # "loading")
  /\ [][/\ \A t \in timers :
             t \notin timers' => (Fired' \/ event'.type \in Interrupts)
        /\ (event'.type = "timeout") =>
             /\ Len(inflight') = Len(inflight) + 1
             /\ timers' = {}
             /\ \E t \in timers : event'.text = t.query
             /\ mounted => state'.status = "loading"
        /\ (mounted /\ event'.type = "FETCH_SUCCESS") =>
             \A i \in 1..Len(inflight), rs \in Responses :
               FetchSuccess(i, rs) =>
                 state'.status = "success" /\ state'.results = rs
        /\ (mounted /\ event'.type = "FETCH_ERROR") =>
             \A i \in 1..Len(inflight), msg \in Failures :
               FetchError(i, msg) =>
                 /\ state'.status = "error"
                 /\ state'.results = <<>>
                 /\ state'.error = msg]_vars

SubmitEventuallyFetchedWitness ==
  /\ mounted
  /\ event.type = "FETCH_ERROR"
  /\ state.status = "error"
  /\ state.error = "Failed to fetch"
  /\ state.results = <<>>
  /\ state.query = <<"a", " ">>
  /\ timers = {}
  /\ inflight = <<>>

\* C16: after Escape, pressed on the input or on a list entry, the focus is
\* on the input.
EscapeFocusesInput ==
  [][(event'.type \in {"inputEscape", "itemEscape"}) => focus' = Input]_vars

\* C17: every step that replaces the results (a fetch resolving or failing
\* while mounted, a clear) leaves activeIndex = -1.
ResultsChangeResetsIndex ==
  [][(\/ mounted /\ event'.type \in Resolved
      \/ event'.type \in Clears)
       => activeIndex' = -1]_vars

\* C18: committing a selection schedules no debounce timer, so that no fetch
\* is issued for the selected title afterwards.
SelectionSchedulesNothing ==
  [][(event'.type \in Selections) => timers' \subseteq timers]_vars

\* C19: clear(), from whatever state, leaves the initial state (idle, query
\* "", no results, no error) and no timer pending, and issues no fetch; and
\* as long as no timer is pending, nothing but a non-blank submit makes one
\* pending or issues a fetch.
ClearResetsAll ==
  [][/\ (event'.type \in Clears) =>
          /\ state' = initialState
          /\ timers' = {}
          /\ ~Issued
     /\ (/\ timers = {}
         /\ ~(event'.type \in Submits /\ ~IsBlank(event'.text)))
          => timers' = {} /\ ~Issued]_vars

ClearResetsAllWitness ==
  /\ event.type = "clearButton"
  /\ state = initialState
  /\ timers = {}
  /\ debounceTimer > 0
  /\ Len(inflight) > 0
  /\ focus = Input

\* C20: ArrowDown on the input sets activeIndex to 0 when results is not
\* empty, whatever activeIndex was, and changes nothing at all when results
\* is empty; isOpen and the search state (query, results, status) are
\* unchanged in both cases.
ArrowDownEntersList ==
  [][(event'.type = "inputArrowDown") =>
       /\ Len(state.results) > 0 => activeIndex' = 0
       /\ Len(state.results) = 0 =>
            UNCHANGED <<state, timers, debounceTimer, inflight, isOpen,
                        activeIndex, focus, mounted>>
       /\ UNCHANGED <<isOpen, state>>]_vars

ArrowDownEntersListWitness ==
  /\ event.type = "inputArrowDown"
  /\ Len(state.results) >= 2
  /\ activeIndex = 0
  /\ focus = Item(state.results[1].id)
  /\ isOpen

\* C21: a failure ends its own attempt only: when the fetch of the latest
\* non-empty submit resolves, the status is success and error is unset; and
\* a failure issues no fetch and schedules no timer (no automatic retry).
FailureIsRecoverable ==
  [][/\ (/\ mounted
         /\ event'.type = "FETCH_SUCCESS"
         /\ \E i \in 1..Len(inflight) :
              inflight[i].mark = "fresh" /\ inflight' = RemoveAt(inflight, i))
          => state'.status = "success" /\ state'.error = Null
     /\ (event'.type = "FETCH_ERROR") => ~Issued /\ timers' = timers]_vars

\* C22: in every state in which a user event can occur (the widget is
\* mounted), an activeIndex that is a valid position of results means the
\* focus is on the list entry at that position.
FocusFollowsActiveIndex ==
  (mounted /\ activeIndex >= 0 /\ activeIndex < Len(state.results))
    => focus = Item(state.results[activeIndex + 1].id)

\* C23: at most one debounce timer is pending, and it is the one the last
\* submit scheduled (its handle is debounceTimer.current, its text the
\* query); a non-blank submit leaves exactly one timer, its own; a fetch is
\* issued only by the pending timer firing, so a timer that was cancelled
\* never fires.
OneTimerPending ==
  /\ [](/\ Cardinality(timers) <= 1
        /\ \A t \in timers :
             t.handle = debounceTimer /\ t.rawQuery = state.query)
  /\ [][/\ (event'.type \in Submits /\ ~IsBlank(event'.text)) =>
             /\ Cardinality(timers') = 1
             /\ \A t \in timers' : t.rawQuery = event'.text
        /\ Issued =>
             /\ event'.type = "timeout"
             /\ \E t \in timers :
                  /\ t.handle = debounceTimer
                  /\ timers' = timers \ {t}
        /\ (event'.type = "timeout") => Issued]_vars

OneTimerPendingWitness ==
  /\ mounted
  /\ restarted
  /\ event = Event("handleChange", <<"a", " ">>)
  /\ Cardinality(timers) = 1
  /\ Len(inflight) = 1
  /\ state.status = "loading"

\* C24: isOpen goes from false to true only by a text change on the input;
\* no other step (timer, fetch resolution, arrow key, selection, Escape,
\* clear, mousedown, unmount) opens a closed dropdown.
OnlyTypingOpens ==
  [][(~isOpen /\ isOpen') => event'.type = "handleChange"]_vars

\* the dropdown was closed by a selection and stayed closed while the fetch
\* for the selected title was issued and resolved with a list
OnlyTypingOpensWitness ==
  /\ mounted
  /\ ~isOpen
  /\ event.type = "FETCH_SUCCESS"
  /\ state.status = "success"
  /\ Len(state.results) > 0
  /\ state.query = <<" ", "a">>
  /\ inflight = <<>>

\* C25: while mounted, status = loading means that a fetch that was issued
\* has not resolved yet, and status = idle means that results is empty and
\* error is unset.
LoadingHasFetchInFlight ==
  mounted =>
    /\ (state.status = "loading") => Len(inflight) > 0
    /\ (state.status = "idle") => state.results = <<>> /\ state.error = Null

\* loading again after an earlier fetch has resolved with a list, with a
\* second non-blank query already waiting for its timer
LoadingHasFetchInFlightWitness ==
  /\ mounted
  /\ state.status = "loading"
  /\ Len(state.results) > 0
  /\ Len(inflight) = 1
  /\ timers # {}
  /\ event.type = "handleChange"

====
